---------------------------- MODULE Spec2Model ----------------------------
(***************************************************************************)
(* Offline-caching service workers of the PDF utility web app.             *)
(*                                                                         *)
(* Four worker variants are modelled from their sources:                   *)
(*   v6     src/unnamed/part_000                                           *)
(*   v7     src/unnamed/part_001   (v7.0.1)                                *)
(*   v8     src/sw.js lines 1-147                                          *)
(*   v9     src/sw.js lines 149-424                                        *)
(*                                                                         *)
(* The state is the browser's CacheStorage (an ordered list of named       *)
(* stores), the newest worker's lifecycle position, the fetch handlers in  *)
(* flight (each with the position it is suspended at), and the pending     *)
(* store deletions of a CLEAR_CACHE message.  One action is one task of    *)
(* the event loop: the code between two suspension points.                 *)
(***************************************************************************)
EXTENDS Integers, Sequences, FiniteSets, TLC

(***************************************************************************)
(* Bounds of the exploration.                                              *)
(***************************************************************************)
\* fetch events dispatched in one behaviour
MaxHandlers == 2
\* worker upgrades (a later version installed over the active one)
MaxUpgrades == 1
\* CLEAR_CACHE messages posted in one behaviour
MaxMessages == 1

(***************************************************************************)
(* Versions and their store names.                                         *)
(***************************************************************************)
Versions == {"v6", "v7", "v8", "v9"}

VersionRank(v) ==
    CASE v = "v6" -> 6 [] v = "v7" -> 7 [] v = "v8" -> 8 [] v = "v9" -> 9

CACHE_NAME(v) ==
    CASE v = "v6" -> "lesson-converter-v6.0"
      [] v = "v7" -> "pdf-maker-v7.0.1"
      [] v = "v8" -> "pdf-maker-v8.0.0"
      [] v = "v9" -> "pdf-maker-pro-v9.0.0"

\* v6 declares no runtime store
RUNTIME_CACHE(v) ==
    CASE v = "v6" -> "lesson-converter-v6.0"
      [] v = "v7" -> "pdf-maker-runtime-v7.0.1"
      [] v = "v8" -> "pdf-maker-runtime-v8"
      [] v = "v9" -> "pdf-maker-runtime-v9"

(***************************************************************************)
(* Text.  A string the code tests with startsWith / includes / endsWith is *)
(* a sequence of fragments cut at the places those tests can tell apart.   *)
(***************************************************************************)
StartsWith(s, n) == Len(n) <= Len(s) /\ SubSeq(s, 1, Len(n)) = n

EndsWith(s, n) ==
    Len(n) <= Len(s) /\ SubSeq(s, Len(s) - Len(n) + 1, Len(s)) = n

Includes(s, n) ==
    \E i \in 1..(Len(s) - Len(n) + 1) : SubSeq(s, i, i + Len(n) - 1) = n

\* the origin the app and its worker are served from
LocationOrigin == "https://app.example.com"

(***************************************************************************)
(* The requests the page issues: url, destination, method.                 *)
(***************************************************************************)
IndexUrl  == "https://app.example.com/index.html"
ManifestUrl == "https://app.example.com/manifest.json"
LogoUrl   == "https://app.example.com/logo.png"
PdfJsUrl  == "https://cdnjs.cloudflare.com/ajax/libs/pdf.js/3.11.174/pdf.min.js"
ApiUrl    == "https://api.example.org/data"
ExtUrl    == "chrome-extension://abcdef/popup.js"
FontUrl   == "https://fonts.bunny.net/css"

\* new URL(url): protocol, hostname, pathname, origin
ParseURL(u) ==
    CASE u = IndexUrl ->
           [protocol |-> <<"http", "s", ":">>,
            hostname |-> <<"app", ".", "example", ".", "com">>,
            pathname |-> <<"/", "index", ".html">>,
            origin   |-> "https://app.example.com"]
      [] u = ManifestUrl ->
           [protocol |-> <<"http", "s", ":">>,
            hostname |-> <<"app", ".", "example", ".", "com">>,
            pathname |-> <<"/", "manifest", ".json">>,
            origin   |-> "https://app.example.com"]
      [] u = LogoUrl ->
           [protocol |-> <<"http", "s", ":">>,
            hostname |-> <<"app", ".", "example", ".", "com">>,
            pathname |-> <<"/", "logo", ".png">>,
            origin   |-> "https://app.example.com"]
      [] u = PdfJsUrl ->
           [protocol |-> <<"http", "s", ":">>,
            hostname |-> <<"cdn", "js", ".", "cloudflare", ".", "com">>,
            pathname |-> <<"/", "ajax", "/", "pdf", ".min", ".js">>,
            origin   |-> "https://cdnjs.cloudflare.com"]
      [] u = ApiUrl ->
           [protocol |-> <<"http", "s", ":">>,
            hostname |-> <<"api", ".", "example", ".", "org">>,
            pathname |-> <<"/", "data">>,
            origin   |-> "https://api.example.org"]
      [] u = FontUrl ->
           [protocol |-> <<"http", "s", ":">>,
            hostname |-> <<"fonts", ".", "bunny", ".", "net">>,
            pathname |-> <<"/", "css">>,
            origin   |-> "https://fonts.bunny.net"]
      [] u = ExtUrl ->
           [protocol |-> <<"chrome", "-", "extension", ":">>,
            hostname |-> <<"abcdef">>,
            pathname |-> <<"/", "popup", ".js">>,
            origin   |-> "chrome-extension://abcdef"]

Req(u, d, m) == [url |-> u, destination |-> d, method |-> m]

Requests ==
    { Req(IndexUrl,  "document", "GET"),
      Req(LogoUrl,   "image",    "GET"),
      Req(PdfJsUrl,  "script",   "GET"),
      Req(ApiUrl,    "",         "GET"),
      Req(ExtUrl,    "script",   "GET") }

\* the request a string argument of caches.match stands for
IndexRequest == Req(IndexUrl, "", "GET")

Urls == { r.url : r \in Requests } \cup {ManifestUrl}

(***************************************************************************)
(* Responses.                                                              *)
(***************************************************************************)
\* what a promise resolves to when the code yields no response
Undefined == [kind |-> "undefined"]
\* a promise not yet settled
Pending == [kind |-> "pending"]
\* no entry under a key
NoEntry == [kind |-> "none"]

\* statuses a network response carries in the model
Statuses == {200, 204, 404}

\* response.ok
Ok(s) == s >= 200 /\ s <= 299

\* a response of the network to the fetch issued by `by` (0: an install)
NetResponse(u, s, by) == [kind |-> "net", url |-> u, status |-> s, by |-> by]

IsNet(r) == r.kind = "net"

\* new Response(body, {status, headers}); the status defaults to 200
Synthetic(body, contentType, status) ==
    [kind |-> "synthetic", body |-> body,
     contentType |-> contentType, status |-> status]

SvgPlaceholder ==
    Synthetic("<svg><rect/><text>Offline</text></svg>", "image/svg+xml", 200)
ScriptPlaceholder(v) ==
    Synthetic(IF v = "v9" THEN "/* Offline */" ELSE "/* offline */",
              "application/javascript", 200)
StylePlaceholder(v) ==
    Synthetic(IF v = "v9" THEN "/* Offline */" ELSE "/* offline */",
              "text/css", 200)
OfflineText == Synthetic("Offline", "text/plain;charset=UTF-8", 503)

IsResponse(r) == r.kind \in {"net", "synthetic"}


(***************************************************************************)
(* CacheStorage: the stores in creation order.  A store keeps the identity *)
(* it was created with: a Cache object obtained from caches.open writes to *)
(* that store, which caches.delete may since have unlinked.                *)
(***************************************************************************)
EmptyEntries == [u \in Urls |-> NoEntry]

StoreNames(S) == { S[i].name : i \in DOMAIN S }

\* caches.match(request): the first store, in creation order, with an entry
Match(S, req) ==
    LET hits == { i \in DOMAIN S : S[i].entries[req.url] # NoEntry }
    IN  IF req.method # "GET" \/ hits = {}
        THEN Undefined
        ELSE S[CHOOSE i \in hits : \A j \in hits : i <= j].entries[req.url]

\* caches.open(name) by creator `id`: creates the store when none has the name
Open(S, name, id) ==
    IF name \in StoreNames(S)
    THEN S
    ELSE Append(S, [name |-> name, id |-> id, entries |-> EmptyEntries])

\* the identity of the store caches.open(name) yields
HandleOf(S, name, id) ==
    IF name \in StoreNames(S)
    THEN S[CHOOSE i \in DOMAIN S : S[i].name = name].id
    ELSE id

\* mutant: an entry already under the key is kept
PutIfAbsent(S, handle, u, r) ==
    [ i \in DOMAIN S |->
        IF S[i].id = handle /\ S[i].entries[u] = NoEntry
        THEN [S[i] EXCEPT !.entries[u] = r]
        ELSE S[i] ]

\* cache.put(request, response) through the Cache object of store `handle`
Put(S, handle, u, r) ==
    [ i \in DOMAIN S |->
        IF S[i].id = handle THEN [S[i] EXCEPT !.entries[u] = r] ELSE S[i] ]

\* caches.delete(name)
Delete(S, name) == SelectSeq(S, LAMBDA st : st.name # name)

\* the entry of the store called `name` under url u
EntryOf(S, name, u) ==
    IF name \in StoreNames(S)
    THEN S[CHOOSE i \in DOMAIN S : S[i].name = name].entries[u]
    ELSE NoEntry

(***************************************************************************)
(* State.                                                                  *)
(***************************************************************************)
VARIABLES
    stores,      \* CacheStorage: sequence of [name, id, entries]
    sw,          \* the newest worker: its version and lifecycle position
    controller,  \* version of the worker fetch events are dispatched to
    handlers,    \* the fetch events of this behaviour, by dispatch order
    clearing,    \* CLEAR_CACHE in progress: phase and store names to delete
                 \* (history: `seen`, the urls cached when it was received)
    upgrades,    \* upgrades so far
    messages,    \* CLEAR_CACHE messages so far
    location,    \* self.location.origin of the worker
    probe        \* a single application of a function of the worker

vars == <<stores, sw, controller, handlers, clearing, upgrades, messages,
          location, probe>>

(***************************************************************************)
(* Classification of a request by the fetch listener of each variant.      *)
(***************************************************************************)
IsSameOrigin(req) == ParseURL(req.url).origin = location

IsCdnHost(v, req) ==
    LET host == ParseURL(req.url).hostname
    IN  CASE v = "v6" ->
               Includes(host, <<"cdn">>) \/ Includes(host, <<"fonts">>)
          [] v \in {"v7", "v8"} ->
               Includes(host, <<"cdn", "js">>) \/ Includes(host, <<"fonts">>)
          [] v = "v9" ->
               \/ Includes(host, <<"cdn", "js">>)
               \/ Includes(host, <<"fonts", ".", "googleapis">>)
               \/ Includes(host, <<"fonts", ".", "gstatic">>)

\* v6: every intercepted request is fetched first, then looked up
StrategyV6(req) ==
    IF req.method # "GET" THEN "passthrough"
    ELSE IF ~IsSameOrigin(req) /\ ~IsCdnHost("v6", req) THEN "passthrough"
    ELSE "v6"

\* mutant: the CDN host test comes before the same-origin test
StrategyCdnFirst(v, req) ==
    LET protocol == ParseURL(req.url).protocol
    IN  IF ~StartsWith(protocol, <<"http">>) THEN "passthrough"
        ELSE IF IsCdnHost(v, req) THEN "swr"
        ELSE IF IsSameOrigin(req) THEN "cacheFirst"
        ELSE "networkFirst"

StrategyV7(v, req) ==
    LET protocol == ParseURL(req.url).protocol
    IN  IF ~StartsWith(protocol, <<"http">>) THEN "passthrough"
        ELSE IF v # "v8" /\ Includes(protocol, <<"extension">>)
             THEN "passthrough"
        ELSE IF IsSameOrigin(req) THEN "cacheFirst"
        ELSE IF IsCdnHost(v, req) THEN "swr"
        ELSE "networkFirst"

Strategy(v, req) == IF v = "v6" THEN StrategyV6(req) ELSE StrategyV7(v, req)

(***************************************************************************)
(* createOfflineResponse(request) of v7 and v9: either a lookup of the     *)
(* cached shell (a promise) or a synthetic response.                       *)
(***************************************************************************)
NeedsIndexLookup(req) ==
    \/ req.destination = "document"
    \/ EndsWith(ParseURL(req.url).pathname, <<".html">>)

\* mutant: every placeholder is the status-503 text
createOfflineTextOnly(v, req) == OfflineText

createOfflineResponse(v, req) ==
    IF req.destination = "image" THEN SvgPlaceholder
    ELSE IF req.destination = "script" THEN ScriptPlaceholder(v)
    ELSE IF req.destination = "style" THEN StylePlaceholder(v)
    ELSE OfflineText


(***************************************************************************)
(* Fetch events in flight.                                                 *)
(***************************************************************************)
HandlerIds == 1..MaxHandlers

\* no function applied yet
NoProbe == [op |-> "none"]

\* a fetch event not yet dispatched
IdleHandler ==
    [ver |-> "none", req |-> IndexRequest, strategy |-> "none",
     task |-> "none", pc |-> "idle", cached |-> Pending, out |-> Pending,
     net |-> "none", resp |-> Pending, handle |-> 0, consumed |-> FALSE,
     fetches |-> 0, afterClear |-> FALSE, stored |-> FALSE, reads |-> {}]

\* fields of a handler: ver, req: the worker and the request; strategy: the
\* branch of the listener; task: the code it is suspended in; pc: the await
\* it is suspended at; cached: the result of its lookup; out: what the
\* promise given to respondWith settled to; net: how its fetch settled;
\* resp: the network response; handle: the store its Cache object writes;
\* consumed: the page reads the body of resp; fetches: network fetches
\* issued; afterClear (history): dispatched after a CLEAR_CACHE message;
\* stored (history): its cache.put has completed; reads (history): the
\* keys its lookups asked for

\* the activate event of the newest worker is running
Activating == sw.phase \in {"activate", "deleting"}

SetHandler(h, H) == handlers' = [handlers EXCEPT ![h] = H]

(***************************************************************************)
(* fetch listener: classification and the synchronous start of the         *)
(* handler.  Events are numbered in dispatch order.                        *)
(***************************************************************************)
Started(v, req) ==
    LET st == Strategy(v, req)
        H  == [IdleHandler EXCEPT !.ver = v, !.req = req,
                                  !.strategy = st, !.task = st]
    IN  CASE st = "passthrough" -> [H EXCEPT !.pc = "done"]
          [] st \in {"cacheFirst", "swr"} -> [H EXCEPT !.pc = "match"]
          [] st \in {"networkFirst", "v6"} ->
               [H EXCEPT !.pc = "fetch", !.fetches = 1]

Dispatch(h, req) ==
    /\ controller \in Versions
    /\ ~Activating
    /\ handlers[h].pc = "idle"
    /\ \A j \in HandlerIds : j < h => handlers[j].pc # "idle"
    /\ SetHandler(h, [Started(controller, req)
                          EXCEPT !.afterClear = messages > 0])
    /\ UNCHANGED <<stores, sw, controller, clearing, upgrades, messages,
                 location, probe>>

(***************************************************************************)
(* handleFetch: `await caches.match(request)` resumes.                     *)
(***************************************************************************)
\* mutant: every variant refreshes a cache-first hit in the background
AfterMatchRefreshing(H, c) ==
    IF H.strategy = "cacheFirst"
    THEN IF c # Undefined
         THEN [H EXCEPT !.cached = c, !.out = c, !.task = "fetchAndCache",
                        !.pc = "fetch", !.fetches = @ + 1]
         ELSE [H EXCEPT !.cached = c, !.pc = "fetch", !.fetches = @ + 1]
    ELSE [H EXCEPT !.cached = c, !.pc = "fetch", !.fetches = @ + 1,
                   !.out = IF c # Undefined THEN c ELSE Pending]

AfterMatch(H, c) ==
    IF H.strategy = "cacheFirst"
    THEN IF c # Undefined
         THEN IF H.ver = "v9"
              \* fetchAndCache(request); return cached
              THEN [H EXCEPT !.cached = c, !.out = c, !.task = "fetchAndCache",
                             !.pc = "fetch", !.fetches = @ + 1]
              \* return cached
              ELSE [H EXCEPT !.cached = c, !.out = c, !.pc = "done"]
         ELSE [H EXCEPT !.cached = c, !.pc = "fetch", !.fetches = @ + 1]
    \* stale-while-revalidate: fetch(request) is issued in both cases and
    \* `cached || fetchPromise` is returned
    ELSE [H EXCEPT !.cached = c, !.pc = "fetch", !.fetches = @ + 1,
                   !.out = IF c # Undefined THEN c ELSE Pending]

MatchResolves(h) ==
    /\ handlers[h].pc = "match"
    /\ SetHandler(h, [AfterMatch(handlers[h], Match(stores, handlers[h].req))
                          EXCEPT !.reads = @ \cup {handlers[h].req.url}])
    /\ UNCHANGED <<stores, sw, controller, clearing, upgrades, messages,
                 location, probe>>

(***************************************************************************)
(* fetch(request) resolves with a response of status s.                    *)
(***************************************************************************)
\* mutant: v6 stores every ok response
FetchedV6Ok(H, r) ==
    IF Ok(r.status)
    THEN [H EXCEPT !.resp = r, !.out = r, !.pc = "open"]
    ELSE [H EXCEPT !.resp = r, !.out = r, !.pc = "done"]

\* v6: store a clone of a status-200 response, return the response
FetchedV6(H, r) ==
    IF r.status = 200
    THEN [H EXCEPT !.resp = r, !.out = r, !.pc = "open"]
    ELSE [H EXCEPT !.resp = r, !.out = r, !.pc = "done"]

\* cache-first miss: an ok response is stored before it is returned
FetchedCacheFirst(H, r) ==
    IF Ok(r.status)
    THEN [H EXCEPT !.resp = r, !.pc = "open"]
    ELSE [H EXCEPT !.resp = r, !.out = r, !.pc = "done"]

\* mutant: the background refresh stores whatever it received
FetchedFetchAndCacheAlways(H, r) == [H EXCEPT !.resp = r, !.pc = "open"]

\* v9 fetchAndCache: the response is only stored
FetchedFetchAndCache(H, r) ==
    IF Ok(r.status)
    THEN [H EXCEPT !.resp = r, !.pc = "open"]
    ELSE [H EXCEPT !.resp = r, !.pc = "done"]

\* mutant: the refresh returns the response and never stores it
FetchedSwrUnstored(H, r) ==
    [H EXCEPT !.resp = r, !.pc = "done",
              !.out = IF H.out = Pending THEN r ELSE H.out]

\* stale-while-revalidate: v7 and v8 return the response from the callback
\* and open the store on the side; v9 awaits the open inside the callback
FetchedSwr(H, r) ==
    LET settled == IF H.out = Pending THEN r ELSE H.out
    IN  IF Ok(r.status)
        THEN IF H.ver = "v9"
             THEN [H EXCEPT !.resp = r, !.pc = "open"]
             ELSE [H EXCEPT !.resp = r, !.out = settled, !.pc = "open"]
        ELSE [H EXCEPT !.resp = r, !.out = settled, !.pc = "done"]

\* network-first: return await fetch(request)
FetchedNetworkFirst(H, r) == [H EXCEPT !.resp = r, !.out = r, !.pc = "done"]

Fetched(H, r) ==
    CASE H.task = "v6" -> FetchedV6(H, r)
      [] H.task = "cacheFirst" -> FetchedCacheFirst(H, r)
      [] H.task = "fetchAndCache" -> FetchedFetchAndCache(H, r)
      [] H.task = "swr" -> FetchedSwr(H, r)
      [] H.task = "networkFirst" -> FetchedNetworkFirst(H, r)

FetchResolves(h, s) ==
    /\ handlers[h].pc = "fetch"
    /\ SetHandler(h, [Fetched(handlers[h],
                              NetResponse(handlers[h].req.url, s, h))
                          EXCEPT !.net = "resolved"])
    /\ UNCHANGED <<stores, sw, controller, clearing, upgrades, messages,
                 location, probe>>

(***************************************************************************)
(* fetch(request) rejects.                                                 *)
(***************************************************************************)
\* cache-first miss: v7 answers with createOfflineResponse(request), v8 and
\* v9 with caches.match('/index.html')
FailedCacheFirst(H) ==
    IF H.ver = "v7" /\ ~NeedsIndexLookup(H.req)
    THEN [H EXCEPT !.out = createOfflineResponse(H.ver, H.req), !.pc = "done"]
    ELSE [H EXCEPT !.pc = "index"]

\* stale-while-revalidate: .catch(() => cached)
FailedSwr(H) ==
    [H EXCEPT !.out = IF H.out = Pending THEN H.cached ELSE H.out,
              !.pc = "done"]

Failed(H) ==
    CASE H.task = "v6" -> [H EXCEPT !.pc = "fallback"]
      [] H.task = "cacheFirst" -> FailedCacheFirst(H)
      [] H.task = "fetchAndCache" -> [H EXCEPT !.pc = "done"]
      [] H.task = "swr" -> FailedSwr(H)
      [] H.task = "networkFirst" -> [H EXCEPT !.pc = "fallback"]

FetchRejects(h) ==
    /\ handlers[h].pc = "fetch"
    /\ SetHandler(h, [Failed(handlers[h]) EXCEPT !.net = "rejected"])
    /\ UNCHANGED <<stores, sw, controller, clearing, upgrades, messages,
                 location, probe>>


(***************************************************************************)
(* caches.open(CACHE_NAME) resolves: the store exists from here on, and    *)
(* the code that follows hands cache.put its copy of the response.         *)
(***************************************************************************)
\* cache.put rejects a request whose method is not GET
PutAccepts(req) == req.method = "GET"

\* response.clone() throws once the body of the response is in use
CloneSucceeds(H) == ~H.consumed

Opened(H, id) ==
    LET wr == [H EXCEPT !.handle = id, !.pc = "put"]
        no == [H EXCEPT !.handle = id, !.pc = "done"]
        settled == IF H.out = Pending THEN H.resp ELSE H.out
    IN  CASE H.task = "v6" -> wr
          \* cache.put(request, response.clone()); return response
          [] H.task = "cacheFirst" ->
               IF PutAccepts(H.req)
               THEN [wr EXCEPT !.out = H.resp]
               ELSE [no EXCEPT !.out = H.resp]
          \* cache.put(request, response)
          [] H.task = "fetchAndCache" -> wr
          [] H.task = "swr" ->
               IF H.ver = "v9"
               THEN IF PutAccepts(H.req)
                    THEN [wr EXCEPT !.out = settled]
                    ELSE [no EXCEPT !.out = settled]
               \* v7, v8: the clone is taken here, after the response was
               \* returned from the callback
               ELSE IF CloneSucceeds(H) /\ PutAccepts(H.req) THEN wr ELSE no

OpenResolves(h) ==
    /\ handlers[h].pc = "open"
    /\ LET name == CACHE_NAME(handlers[h].ver)
       IN  /\ stores' = Open(stores, name, h)
           /\ SetHandler(h, Opened(handlers[h], HandleOf(stores, name, h)))
    /\ UNCHANGED <<sw, controller, clearing, upgrades, messages,
                 location, probe>>

\* mutant: the response is written under the key of the shell
PutCompletesUnderShell(h) ==
    /\ handlers[h].pc = "put"
    /\ stores' = Put(stores, handlers[h].handle, IndexUrl, handlers[h].resp)
    /\ SetHandler(h, [handlers[h] EXCEPT !.pc = "done", !.stored = TRUE])
    /\ UNCHANGED <<sw, controller, clearing, upgrades, messages,
                   location, probe>>

\* cache.put completes: the entry is replaced in the store the Cache object
\* belongs to
PutCompletes(h) ==
    /\ handlers[h].pc = "put"
    /\ stores' = Put(stores, handlers[h].handle, handlers[h].req.url,
                     handlers[h].resp)
    /\ SetHandler(h, [handlers[h] EXCEPT !.pc = "done", !.stored = TRUE])
    /\ UNCHANGED <<sw, controller, clearing, upgrades, messages,
                 location, probe>>

(***************************************************************************)
(* The lookup after a rejected fetch resumes.                              *)
(***************************************************************************)
\* v6: response || caches.match('/index.html')
FallbackV6(H, c) ==
    IF c # Undefined
    THEN [H EXCEPT !.cached = c, !.out = c, !.pc = "done"]
    ELSE [H EXCEPT !.cached = c, !.pc = "index"]

\* v7, v9: cached, else createOfflineResponse(request)
FallbackNetworkFirst(H, c) ==
    IF c # Undefined
    THEN [H EXCEPT !.cached = c, !.out = c, !.pc = "done"]
    ELSE IF NeedsIndexLookup(H.req)
    THEN [H EXCEPT !.cached = c, !.pc = "index"]
    ELSE [H EXCEPT !.cached = c, !.pc = "done",
                   !.out = createOfflineResponse(H.ver, H.req)]

\* v8: `caches.match(request) || new Response(...)`: the left operand is a
\* promise, so it is what the handler returns
FallbackNetworkFirstV8(H, c) ==
    [H EXCEPT !.cached = c, !.out = c, !.pc = "done"]

Fallback(H, c) ==
    CASE H.task = "v6" -> FallbackV6(H, c)
      [] H.task = "networkFirst" /\ H.ver = "v8" -> FallbackNetworkFirstV8(H, c)
      [] H.task = "networkFirst" /\ H.ver # "v8" -> FallbackNetworkFirst(H, c)

FallbackResolves(h) ==
    /\ handlers[h].pc = "fallback"
    /\ SetHandler(h, [Fallback(handlers[h], Match(stores, handlers[h].req))
                          EXCEPT !.reads = @ \cup {handlers[h].req.url}])
    /\ UNCHANGED <<stores, sw, controller, clearing, upgrades, messages,
                 location, probe>>

\* caches.match('/index.html') resolves: its result is the handler's answer
IndexResolves(h) ==
    /\ handlers[h].pc = "index"
    /\ SetHandler(h, [handlers[h] EXCEPT !.out = Match(stores, IndexRequest),
                                         !.pc = "done",
                                         !.reads = @ \cup {IndexRequest.url}])
    /\ UNCHANGED <<stores, sw, controller, clearing, upgrades, messages,
                 location, probe>>

\* the page starts reading the body of the network response it was handed,
\* while the worker still holds that response
PageConsumes(h) ==
    /\ handlers[h].pc = "open"
    /\ IsNet(handlers[h].resp)
    /\ handlers[h].out = handlers[h].resp
    /\ ~handlers[h].consumed
    /\ SetHandler(h, [handlers[h] EXCEPT !.consumed = TRUE])
    /\ UNCHANGED <<stores, sw, controller, clearing, upgrades, messages,
                 location, probe>>


(***************************************************************************)
(* install.  Of each manifest the model keeps a prefix: the loops of v7-v9 *)
(* treat every asset alike, one local and one CDN asset go through both of *)
(* them; cache.addAll of v6 depends on all its assets, so v6 keeps two.    *)
(***************************************************************************)
\* urlsToCache (v6), PRECACHE_ASSETS (v7, v8), PRECACHE_FILES (v9)
PRECACHE(v) == IF v = "v6" THEN <<IndexUrl, ManifestUrl>> ELSE <<IndexUrl>>

\* CDN_ASSETS (v7, v8), CDN_RESOURCES (v9); v6 has none
CDN(v) == IF v = "v6" THEN <<>> ELSE <<PdfJsUrl>>

Manifest(v) == PRECACHE(v) \o CDN(v)

\* the worker of version v, parsed and about to receive install
\* (okAssets, history: the manifest assets whose fetch returned an ok response)
NewWorker(v) ==
    [ver |-> v, phase |-> "parsed", i |-> 0, resp |-> Pending,
     handle |-> 0, pending |-> {}, okAssets |-> {}]

\* the identity of the store an install creates
InstallId(v) == 0 - VersionRank(v)

\* caches.open(CACHE_NAME) of the install handler resolves
InstallOpen ==
    /\ sw.phase = "parsed"
    /\ stores' = Open(stores, CACHE_NAME(sw.ver), InstallId(sw.ver))
    /\ sw' = [sw EXCEPT !.phase = IF sw.ver = "v6" THEN "addAll" ELSE "fetch",
                        !.i = 1,
                        !.handle = HandleOf(stores, CACHE_NAME(sw.ver),
                                            InstallId(sw.ver))]
    /\ UNCHANGED <<controller, handlers, clearing, upgrades, messages,
                 location, probe>>

\* the loop moves to the next asset; after the last one skipWaiting() lets
\* the worker activate
NextAsset(w) ==
    IF w.i < Len(Manifest(w.ver))
    THEN [w EXCEPT !.phase = "fetch", !.i = @ + 1, !.resp = Pending]
    ELSE [w EXCEPT !.phase = "activate", !.i = 0, !.resp = Pending]

\* v7-v9: `await fetch(url)` resolves; an ok response goes to cache.put
InstallFetchResolves(s) ==
    /\ sw.phase = "fetch"
    /\ sw' = IF Ok(s)
             THEN [sw EXCEPT !.phase = "put",
                             !.resp = NetResponse(Manifest(sw.ver)[sw.i], s, 0),
                             !.okAssets = @ \cup {Manifest(sw.ver)[sw.i]}]
             ELSE NextAsset(sw)
    /\ UNCHANGED <<stores, controller, handlers, clearing, upgrades, messages,
                 location, probe>>

\* v7-v9: `await fetch(url)` rejects; the catch logs and the loop goes on
InstallFetchRejects ==
    /\ sw.phase = "fetch"
    /\ sw' = NextAsset(sw)
    /\ UNCHANGED <<stores, controller, handlers, clearing, upgrades, messages,
                 location, probe>>

\* v7-v9: `await cache.put(url, response)` completes
InstallPutCompletes ==
    /\ sw.phase = "put"
    /\ stores' = Put(stores, sw.handle, Manifest(sw.ver)[sw.i], sw.resp)
    /\ sw' = NextAsset(sw)
    /\ UNCHANGED <<controller, handlers, clearing, upgrades, messages,
                 location, probe>>

\* the entries cache.addAll(urls) writes: all of them when every fetch
\* resolved with an ok response, none otherwise
AddAll(S, handle, urls, ok, st) ==
    IF \A i \in DOMAIN urls : ok[i] /\ Ok(st[i])
    THEN [ k \in DOMAIN S |->
            IF S[k].id = handle
            THEN [S[k] EXCEPT !.entries =
                    [u \in Urls |->
                        IF \E i \in DOMAIN urls : urls[i] = u
                        THEN NetResponse(u,
                               st[CHOOSE i \in DOMAIN urls : urls[i] = u], 0)
                        ELSE @[u]]]
            ELSE S[k] ]
    ELSE S

\* v6: cache.addAll(urlsToCache) settles; .catch(() => {}) swallows a failure
InstallAddAllSettles ==
    /\ sw.phase = "addAll"
    /\ \E ok \in [DOMAIN Manifest(sw.ver) -> BOOLEAN],
          st \in [DOMAIN Manifest(sw.ver) -> Statuses] :
          /\ stores' = AddAll(stores, sw.handle, Manifest(sw.ver), ok, st)
          /\ sw' = [sw EXCEPT !.phase = "activate", !.i = 0,
                              !.okAssets = { Manifest(sw.ver)[i] :
                                  i \in { j \in DOMAIN Manifest(sw.ver) :
                                             ok[j] /\ Ok(st[j]) } }]
    /\ UNCHANGED <<controller, handlers, clearing, upgrades, messages,
                 location, probe>>

(***************************************************************************)
(* activate.                                                               *)
(***************************************************************************)
\* the store names the activate handler keeps
Kept(v) == IF v = "v6" THEN {CACHE_NAME(v)} ELSE {CACHE_NAME(v), RUNTIME_CACHE(v)}

\* the events of the worker being replaced have all been answered (the
\* browser activates the new worker only then); what those handlers left
\* running unawaited may still run
NoPendingEvents ==
    \A h \in HandlerIds :
        handlers[h].pc \notin {"idle", "done"}
            => handlers[h].out # Pending

\* `await caches.keys()` resolves; a caches.delete is issued for every
\* name that is not kept
ActivateKeys ==
    /\ sw.phase = "activate"
    /\ NoPendingEvents
    /\ LET old == StoreNames(stores) \ Kept(sw.ver)
       IN  sw' = IF old = {}
                 THEN [sw EXCEPT !.phase = "activated"]
                 ELSE [sw EXCEPT !.phase = "deleting", !.pending = old]
    /\ controller' = IF StoreNames(stores) \ Kept(sw.ver) = {}
                     THEN sw.ver ELSE controller
    /\ UNCHANGED <<stores, handlers, clearing, upgrades, messages,
                 location, probe>>

\* one caches.delete(key) completes; after the last one Promise.all
\* resolves, clients are claimed and the worker is active
ActivateDelete(n) ==
    /\ sw.phase = "deleting"
    /\ n \in sw.pending
    /\ stores' = Delete(stores, n)
    /\ sw' = IF sw.pending = {n}
             THEN [sw EXCEPT !.phase = "activated", !.pending = {}]
             ELSE [sw EXCEPT !.pending = @ \ {n}]
    /\ controller' = IF sw.pending = {n} THEN sw.ver ELSE controller
    /\ UNCHANGED <<handlers, clearing, upgrades, messages,
                 location, probe>>

\* a later version of the worker script is deployed and registered
Upgrade(v) ==
    /\ sw.phase = "activated"
    /\ upgrades < MaxUpgrades
    /\ VersionRank(v) > VersionRank(sw.ver)
    /\ sw' = NewWorker(v)
    /\ upgrades' = upgrades + 1
    /\ UNCHANGED <<stores, controller, handlers, clearing, messages,
                 location, probe>>

(***************************************************************************)
(* message: CLEAR_CACHE (v9).                                              *)
(***************************************************************************)
\* the urls some store holds an entry for
CachedUrls(S) == { u \in Urls : \E i \in DOMAIN S : S[i].entries[u] # NoEntry }

Cleared(c) == [c EXCEPT !.phase = "none", !.pending = {}]

\* the listener calls caches.keys() and returns
ClearCacheMessage ==
    /\ controller = "v9"
    /\ ~Activating
    /\ clearing.phase = "none"
    /\ messages < MaxMessages
    /\ clearing' = [phase |-> "keys", pending |-> {},
                    seen |-> clearing.seen \cup CachedUrls(stores)]
    /\ messages' = messages + 1
    /\ UNCHANGED <<stores, sw, controller, handlers, upgrades,
                 location, probe>>

\* caches.keys() resolves; keys.forEach issues an unawaited caches.delete
\* for every name
ClearCacheKeys ==
    /\ clearing.phase = "keys"
    /\ clearing' = IF StoreNames(stores) = {}
                   THEN Cleared(clearing)
                   ELSE [clearing EXCEPT !.phase = "deleting",
                                         !.pending = StoreNames(stores)]
    /\ UNCHANGED <<stores, sw, controller, handlers, upgrades, messages,
                 location, probe>>

\* one of those deletions completes
ClearCacheDelete(n) ==
    /\ clearing.phase = "deleting"
    /\ n \in clearing.pending
    /\ stores' = Delete(stores, n)
    /\ clearing' = IF clearing.pending = {n}
                   THEN Cleared(clearing)
                   ELSE [clearing EXCEPT !.pending = @ \ {n}]
    /\ UNCHANGED <<sw, controller, handlers, upgrades, messages,
                 location, probe>>

(***************************************************************************)
(* The system.                                                             *)
(***************************************************************************)
AllStoreNames == UNION { Kept(v) : v \in Versions }

Init ==
    /\ stores = <<>>
    /\ \E v \in Versions : sw = NewWorker(v)
    /\ controller = "none"
    /\ handlers = [h \in HandlerIds |-> IdleHandler]
    /\ clearing = [phase |-> "none", pending |-> {}, seen |-> {}]
    /\ upgrades = 0
    /\ messages = 0
    /\ location = LocationOrigin
    /\ probe = NoProbe

\* the steps of the fetch handlers
HandlerStep(h) ==
    \/ \E req \in Requests : Dispatch(h, req)
    \/ MatchResolves(h)
    \/ \E s \in Statuses : FetchResolves(h, s)
    \/ FetchRejects(h)
    \/ OpenResolves(h)
    \/ PutCompletes(h)
    \/ FallbackResolves(h)
    \/ IndexResolves(h)
    \/ PageConsumes(h)

\* the steps of the worker's install and activate handlers
InstallStep ==
    \/ InstallOpen
    \/ \E s \in Statuses : InstallFetchResolves(s)
    \/ InstallFetchRejects
    \/ InstallPutCompletes
    \/ InstallAddAllSettles
    \/ ActivateKeys

\* the steps of the CLEAR_CACHE message
ClearCacheStep ==
    \/ ClearCacheMessage
    \/ ClearCacheKeys
    \/ \E n \in AllStoreNames : ClearCacheDelete(n)

\* one worker version installed on empty storage, serving fetch events and
\* CLEAR_CACHE messages
Next ==
    \/ InstallStep
    \/ \E h \in HandlerIds : HandlerStep(h)
    \/ ClearCacheStep

Spec == Init /\ [][Next]_vars

\* the same, with a later version deployed over the active worker, whose
\* activate handler finds the stores of the version before
UpgradeNext ==
    \/ Next
    \/ \E v \in Versions : Upgrade(v)
    \/ \E n \in AllStoreNames : ActivateDelete(n)

UpgradeSpec == Init /\ [][UpgradeNext]_vars

\* fetch handling alone after a first installation; every cache-store
\* operation that was issued completes, a network fetch need not settle
FetchNext ==
    \/ InstallStep
    \/ \E h \in HandlerIds : HandlerStep(h)

CacheStep(h) ==
    \/ MatchResolves(h)
    \/ OpenResolves(h)
    \/ PutCompletes(h)
    \/ FallbackResolves(h)
    \/ IndexResolves(h)

FetchSpec ==
    /\ Init
    /\ [][FetchNext]_vars
    /\ \A h \in HandlerIds : WF_vars(CacheStep(h))

(***************************************************************************)
(* Single applications of the worker's functions, to any request and for   *)
(* any origin the worker may be served from.                               *)
(***************************************************************************)
\* the app origin, or the app served from the CDN host itself
Origins == {LocationOrigin, "https://cdnjs.cloudflare.com"}

Destinations == {"document", "image", "script", "style", ""}

ProbeRequests ==
    [url : Urls \cup {FontUrl}, destination : Destinations,
     method : {"GET", "POST"}]

\* a store as an install leaves it when the shell was fetched
ShellStore(v) ==
    [name |-> CACHE_NAME(v), id |-> InstallId(v),
     entries |-> [EmptyEntries EXCEPT
                    ![IndexUrl] = NetResponse(IndexUrl, 200, 0)]]

\* the fetch listener is handed req: the handler it starts
Classify(req) ==
    /\ probe' = [op |-> "fetch", ver |-> sw.ver, req |-> req,
                 out |-> Started(sw.ver, req)]
    /\ UNCHANGED <<stores, sw, controller, handlers, clearing, upgrades,
                   messages, location>>

\* createOfflineResponse(req) is called (v7, v9): what the promise it
\* returns resolves to
CreateOffline(req) ==
    /\ sw.ver \in {"v7", "v9"}
    /\ probe' = [op |-> "createOfflineResponse", ver |-> sw.ver, req |-> req,
                 out |-> IF NeedsIndexLookup(req)
                         THEN Match(stores, IndexRequest)
                         ELSE createOfflineResponse(sw.ver, req)]
    /\ UNCHANGED <<stores, sw, controller, handlers, clearing, upgrades,
                   messages, location>>

PureInit ==
    /\ \E v \in Versions :
          /\ sw = NewWorker(v)
          /\ stores \in {<<>>, <<ShellStore(v)>>}
    /\ controller = "none"
    /\ handlers = [h \in HandlerIds |-> IdleHandler]
    /\ clearing = [phase |-> "none", pending |-> {}, seen |-> {}]
    /\ upgrades = 0
    /\ messages = 0
    /\ location \in Origins
    /\ probe = NoProbe

PureNext ==
    \/ \E req \in ProbeRequests : Classify(req)
    \/ \E req \in ProbeRequests : CreateOffline(req)

PureSpec == PureInit /\ [][PureNext]_vars

(***************************************************************************)
(* Vocabulary of the properties.                                           *)
(***************************************************************************)
\* respondWith was called for the event of handler h
Intercepted(h) == handlers[h].strategy \notin {"none", "passthrough"}

\* the promise given to respondWith has settled
Answered(h) == Intercepted(h) /\ handlers[h].out # Pending

\* the handler and everything it left running have finished
Finished(h) == Intercepted(h) /\ handlers[h].pc = "done"

\* the lookup of handler h has resumed and found an entry / found none
Hit(h) == handlers[h].cached \notin {Pending, Undefined}
Miss(h) == handlers[h].cached = Undefined

\* no store holds any entry
NothingCached(S) == CachedUrls(S) = {}

\* the placeholder the offline policy assigns to a request that is not
\* answered with the cached shell
PlaceholderFor(v, req) ==
    CASE req.destination = "image" -> SvgPlaceholder
      [] req.destination = "script" -> ScriptPlaceholder(v)
      [] req.destination = "style" -> StylePlaceholder(v)
      [] OTHER -> OfflineText

(***************************************************************************)
(* C1: in every variant the promise passed to respondWith never rejects    *)
(* and resolves to a response object (cached copy, network response or     *)
(* synthetic placeholder), never to undefined.                             *)
(* The handlers have no rejecting path in the model; what the code yields  *)
(* is `out`.  Refuted: a lookup that finds nothing is what v6, v8 and v9   *)
(* return, and what createOfflineResponse returns for documents.           *)
(***************************************************************************)
C1_AlwaysAResponse ==
    \A h \in HandlerIds : Answered(h) => IsResponse(handlers[h].out)

(***************************************************************************)
(* C2 as stated: on a cache-first hit (v7, v8, v9) the cached entry is the *)
(* response and no network fetch is issued for the request, before or      *)
(* after the response is returned.                                         *)
(***************************************************************************)
C2_HitMakesNoFetch ==
    \A h \in HandlerIds :
        (handlers[h].strategy = "cacheFirst" /\ Hit(h))
            => /\ handlers[h].out = handlers[h].cached
               /\ handlers[h].fetches = 0

(***************************************************************************)
(* C2 amended: on a cache-first hit the cached entry is the response in    *)
(* v7, v8 and v9, decided by the lookup alone; v7 and v8 issue no network  *)
(* fetch for the request; v9 issues exactly one, in fetchAndCache, after   *)
(* the response is decided, and its outcome never changes the response.    *)
(***************************************************************************)
C2_HitAnswersFromCache ==
    \A h \in HandlerIds :
        (handlers[h].strategy = "cacheFirst" /\ Hit(h))
            => /\ handlers[h].out = handlers[h].cached
               /\ handlers[h].ver \in {"v7", "v8"} => handlers[h].fetches = 0
               /\ handlers[h].ver = "v9" =>
                    /\ handlers[h].fetches = 1
                    /\ handlers[h].task = "fetchAndCache"

\* a v9 hit whose background refresh has run to the end, and a v7 or v8 hit
C2_Witness ==
    \E h \in HandlerIds :
        /\ handlers[h].strategy = "cacheFirst" /\ Hit(h) /\ Finished(h)
        /\ handlers[h].ver = "v9"
        /\ handlers[h].net = "resolved"

(***************************************************************************)
(* C3: stale-while-revalidate (v7, v8, v9), lookup finds nothing and the   *)
(* fetch rejects: the handler resolves to the offline placeholder of the   *)
(* request's kind, not to undefined.                                       *)
(* Refuted: .catch(() => cached) yields the empty lookup result.           *)
(***************************************************************************)
C3_SwrFailureGivesPlaceholder ==
    \A h \in HandlerIds :
        (handlers[h].strategy = "swr" /\ Miss(h)
            /\ handlers[h].net = "rejected")
            => /\ IsResponse(handlers[h].out)
               /\ ~NeedsIndexLookup(handlers[h].req) =>
                    handlers[h].out =
                        PlaceholderFor(handlers[h].ver, handlers[h].req)

(***************************************************************************)
(* C4: once the activate handler of version V has settled, the existing    *)
(* store names are a subset of {precache-V, runtime-V} (v6: {CACHE_NAME}), *)
(* and stay so while V serves fetch events, also when refreshes started by *)
(* the previous version's worker are still running and call caches.open   *)
(* on their own store name.                                                *)
(* Refuted under UpgradeSpec: such a caches.open creates the deleted store *)
(* again.                                                                  *)
(***************************************************************************)
C4_OnlyCurrentStores ==
    sw.phase = "activated" => StoreNames(stores) \subseteq Kept(sw.ver)

(***************************************************************************)
(* C5: v9, after CLEAR_CACHE was received: once its deletions are done no  *)
(* store exists, and a fetch dispatched after the message for an asset     *)
(* that was cached before the message is not served from a cache, in every *)
(* interleaving with fetch handlers and background refreshes.              *)
(* Refuted: the deletions are not awaited, a lookup dispatched after the   *)
(* message runs before them, and a refresh in flight opens the store again.*)
(***************************************************************************)
C5_ClearCacheClears ==
    /\ (messages > 0 /\ clearing.phase = "none") => stores = <<>>
    /\ \A h \in HandlerIds :
          (handlers[h].afterClear /\ handlers[h].req.url \in clearing.seen)
              => ~Hit(h)

(***************************************************************************)
(* C6: v7, v8, v9: a same-origin request for /index.html, handled while    *)
(* every store is empty and with the fetch rejecting, is answered with the *)
(* fixed offline text response of status 503.                              *)
(* Refuted: the answer is the result of looking up /index.html, which is   *)
(* undefined.                                                              *)
(***************************************************************************)
C6_EmptyShellGets503 ==
    \A h \in HandlerIds :
        (/\ handlers[h].ver \in {"v7", "v8", "v9"}
         /\ handlers[h].req.url = IndexUrl
         /\ handlers[h].net = "rejected"
         /\ Finished(h)
         /\ NothingCached(stores) /\ messages = 0)
            => handlers[h].out = OfflineText

(***************************************************************************)
(* C7: v7, v8, v9, stale-while-revalidate, the lookup finds S and the      *)
(* fetch returns an ok response N: the response is S, decided by the       *)
(* lookup while the fetch is still pending; eventually the precache store  *)
(* holds N under the request key; and a lookup made while the store holds  *)
(* an entry gets that entry.  Checked under FetchSpec: cache-store         *)
(* operations complete, no store is deleted while the handler runs.  The   *)
(* entry N may later be replaced by the refresh of another handler, so the *)
(* store is required to hold N when the write of N completes, and that     *)
(* write is required to complete.                                          *)
(***************************************************************************)
SwrHit(h) == handlers[h].strategy = "swr" /\ Hit(h)

\* the handler got S from the cache and an ok N from the network
SwrRefreshed(h) ==
    /\ SwrHit(h)
    /\ handlers[h].net = "resolved"
    /\ IsNet(handlers[h].resp) /\ Ok(handlers[h].resp.status)

\* what the precache store of the handler's worker holds under its key
PrecacheEntry(h) ==
    IF handlers[h].ver \in Versions
    THEN EntryOf(stores, CACHE_NAME(handlers[h].ver), handlers[h].req.url)
    ELSE NoEntry

C7_StaleAnswer ==
    \A h \in HandlerIds : SwrHit(h) => handlers[h].out = handlers[h].cached

\* the step that completes the handler's write leaves N under the key
C7_WriteStoresN ==
    \A h \in HandlerIds :
        (SwrRefreshed(h) /\ ~handlers[h].stored /\ handlers'[h].stored)
            => PrecacheEntry(h)' = handlers[h].resp

C7_LookupSeesStore ==
    \A g \in HandlerIds :
        (handlers[g].pc = "match" /\ handlers'[g].pc # "match"
            /\ PrecacheEntry(g) # NoEntry)
            => handlers'[g].cached = PrecacheEntry(g)

C8_NetworkFirstStores ==
    \A h \in HandlerIds :
        (/\ handlers[h].strategy = "networkFirst"
         /\ handlers[h].net = "resolved"
         /\ IsNet(handlers[h].resp) /\ Ok(handlers[h].resp.status)
         /\ Finished(h) /\ messages = 0)
            => /\ handlers[h].out = handlers[h].resp
               /\ EntryOf(stores, RUNTIME_CACHE(handlers[h].ver),
                          handlers[h].req.url) # NoEntry

(***************************************************************************)
(* C9: v7, v8, v9, network-first, the fetch rejects: the response is the   *)
(* cached entry of the request if there is one, otherwise the offline      *)
(* placeholder (status 503 for a request that is no document, image,       *)
(* script or style); never undefined.                                      *)
(* Refuted in v8: `caches.match(request) || new Response(...)` returns the *)
(* lookup promise, which resolves to undefined on a miss.                  *)
(***************************************************************************)
C9_NetworkFirstFallback ==
    \A h \in HandlerIds :
        (/\ handlers[h].strategy = "networkFirst"
         /\ handlers[h].net = "rejected"
         /\ Finished(h))
            => /\ IsResponse(handlers[h].out)
               /\ Hit(h) => handlers[h].out = handlers[h].cached
               /\ (Miss(h) /\ ~NeedsIndexLookup(handlers[h].req)) =>
                    handlers[h].out =
                        PlaceholderFor(handlers[h].ver, handlers[h].req)

(***************************************************************************)
(* C10: v7, v8, v9, cache-first, the lookup misses and the fetch rejects:  *)
(* only a navigation/document request is answered with the cached shell;   *)
(* image, script, style and other requests get the placeholder of their    *)
(* kind.                                                                   *)
(* Refuted in v8 and v9: every kind gets caches.match('/index.html').      *)
(***************************************************************************)
C10_FailureByKind ==
    \A h \in HandlerIds :
        (/\ handlers[h].strategy = "cacheFirst"
         /\ Miss(h)
         /\ handlers[h].net = "rejected"
         /\ Finished(h))
            => IF handlers[h].req.destination = "document"
               THEN IsNet(handlers[h].out) => handlers[h].out.url = IndexUrl
               ELSE handlers[h].out =
                        PlaceholderFor(handlers[h].ver, handlers[h].req)

(***************************************************************************)
(* C11: fetch listener and handleFetch of v7, v8, v9 classify every        *)
(* request by the first rule that matches: scheme not http/https -> not    *)
(* intercepted, nothing started; same origin -> cache-first, also for a    *)
(* host that passes the CDN/font test; CDN/font host -> stale-while-       *)
(* revalidate; otherwise network-first.                                    *)
(***************************************************************************)
IsHttp(req) ==
    ParseURL(req.url).protocol \in {<<"http", ":">>, <<"http", "s", ":">>}

FirstMatch(v, req) ==
    IF ~IsHttp(req) THEN "passthrough"
    ELSE IF ParseURL(req.url).origin = location THEN "cacheFirst"
    ELSE IF IsCdnHost(v, req) THEN "swr"
    ELSE "networkFirst"

Classified == probe.op = "fetch" /\ probe.ver \in {"v7", "v8", "v9"}

\* C11: the handler started is the one of the first matching rule
C11_FirstMatchDispatch ==
    Classified =>
        /\ probe.out.strategy = FirstMatch(probe.ver, probe.req)
        /\ probe.out.task = probe.out.strategy
        /\ IF probe.out.strategy = "passthrough"
           THEN probe.out.pc = "done" /\ probe.out.fetches = 0
           ELSE probe.out.pc \in {"match", "fetch"}

\* a same-origin request to a host that passes the CDN test is cache-first
C11_Witness ==
    /\ Classified
    /\ ParseURL(probe.req.url).origin = location
    /\ IsCdnHost(probe.ver, probe.req)
    /\ probe.out.strategy = "cacheFirst"

(***************************************************************************)
(* C12 as stated: createOfflineResponse (v7, v9) maps the destination to   *)
(* its result: document -> lookup of the cached /index.html; image -> SVG  *)
(* with Content-Type image/svg+xml; script -> comment-only script; style   *)
(* -> comment-only stylesheet; other -> body Offline, status 503; the      *)
(* result depends on the destination only, not on the URL path.            *)
(***************************************************************************)
Offlined == probe.op = "createOfflineResponse"

ByDestination(v, req) ==
    IF req.destination = "document"
    THEN Match(stores, IndexRequest)
    ELSE PlaceholderFor(v, req)

\* C12 as stated: the result is a function of the destination alone
C12_ByDestinationOnly ==
    Offlined => probe.out = ByDestination(probe.ver, probe.req)

(***************************************************************************)
(* C12 amended: a request whose destination is document or whose URL path  *)
(* ends in .html gets the lookup of the cached /index.html, whatever its   *)
(* destination; every other request gets the placeholder of its            *)
(* destination as stated.                                                  *)
(***************************************************************************)
\* C12 amended: document or .html path -> shell lookup, else by destination
C12_ByDestinationOrHtmlPath ==
    Offlined =>
        probe.out =
            IF \/ probe.req.destination = "document"
               \/ EndsWith(ParseURL(probe.req.url).pathname, <<".html">>)
            THEN Match(stores, IndexRequest)
            ELSE PlaceholderFor(probe.ver, probe.req)

\* an image request for a path ending in .html is answered with the shell
C12_Witness ==
    /\ Offlined
    /\ probe.req.destination = "image"
    /\ EndsWith(ParseURL(probe.req.url).pathname, <<".html">>)
    /\ IsNet(probe.out) /\ probe.out.url = IndexUrl

(***************************************************************************)
(* C13: in every variant, whatever subset of the manifest assets fails to  *)
(* be fetched, the install handler finishes (the worker goes on to         *)
(* activate) and the precache store then has an entry for every asset      *)
(* whose fetch returned an ok response.                                    *)
(* Refuted in v6: cache.addAll stores nothing when one asset fails.        *)
(***************************************************************************)
Installed == sw.phase \in {"activate", "deleting", "activated"}

\* C13: after install every asset fetched with an ok response is stored
C13_InstallKeepsOkAssets ==
    (Installed /\ messages = 0) =>
        \A u \in sw.okAssets :
            EntryOf(stores, CACHE_NAME(sw.ver), u) # NoEntry

(***************************************************************************)
(* C14: v7, v8, v9: every request for which respondWith was called is      *)
(* eventually answered, assuming only that cache-store operations          *)
(* complete and nothing about the network fetch settling.                  *)
(* Refuted under FetchSpec, whose only fairness is on cache-store          *)
(* operations: a cache-first miss, a stale-while-revalidate miss and the   *)
(* network-first branch await fetch(request) with no timeout.              *)
(***************************************************************************)
C14_NoInterceptionHangs ==
    \A h \in HandlerIds :
        (Intercepted(h) /\ handlers[h].ver \in {"v7", "v8", "v9"})
            ~> Answered(h)

(***************************************************************************)
(* C15: v7, v8, v9, stale-while-revalidate, the lookup finds nothing and   *)
(* the fetch returns an ok response N: the handler returns N and N is      *)
(* stored under the request key, whatever the order of the write and the   *)
(* page's reading of N, the copy being taken before N is handed over.      *)
(* Refuted in v7 and v8: response.clone() runs in the callback of the      *)
(* detached caches.open, after N was returned.                             *)
(***************************************************************************)
SwrMissRefreshed(h) ==
    /\ handlers[h].strategy = "swr" /\ Miss(h)
    /\ handlers[h].net = "resolved"
    /\ IsNet(handlers[h].resp) /\ Ok(handlers[h].resp.status)

\* C15: a stale-while-revalidate miss returns N and stores N
C15_MissStoresN ==
    \A h \in HandlerIds :
        (SwrMissRefreshed(h) /\ Finished(h))
            => /\ handlers[h].out = handlers[h].resp
               /\ handlers[h].stored

(***************************************************************************)
(* C16: overlapping handlers for the same key that each got an ok          *)
(* response: the put that completes replaces the entry under the key by    *)
(* its own response, nothing but a completing put changes an entry, and    *)
(* the key is never left absent; so after all puts the entry is the        *)
(* response of the put that completed last, which may belong to the        *)
(* handler that started first.  Checked under FetchSpec (no store is       *)
(* deleted while the handlers run).                                        *)
(***************************************************************************)
\* this step completes the cache.put of handler h
Writes(h) == ~handlers[h].stored /\ handlers'[h].stored

C16_PutReplaces ==
    \A h \in HandlerIds :
        Writes(h) => PrecacheEntry(h)' = handlers[h].resp

C16_OnlyPutsWrite ==
    \A n \in AllStoreNames, u \in Urls :
        (EntryOf(stores, n, u)' # EntryOf(stores, n, u) /\ sw' = sw)
            => \E h \in HandlerIds :
                  /\ Writes(h)
                  /\ handlers[h].req.url = u
                  /\ n = CACHE_NAME(handlers[h].ver)

C16_KeyPresent ==
    \A h \in HandlerIds : handlers[h].stored => PrecacheEntry(h) # NoEntry

FailedRefresh(h) ==
    /\ Hit(h)
    /\ handlers[h].task \in {"swr", "fetchAndCache"}
    /\ \/ handlers[h].net = "rejected"
       \/ /\ handlers[h].net = "resolved"
          /\ ~Ok(handlers[h].resp.status)

\* C17: a failed background refresh changes neither the answer nor a store
C17_FailedRefreshInvisible ==
    \A h \in HandlerIds :
        FailedRefresh(h)
            => /\ handlers[h].out = handlers[h].cached
               /\ handlers[h].pc = "done"
               /\ handlers[h].handle = 0
               /\ ~handlers[h].stored

\* a v9 cache-first hit whose fetchAndCache got a non-ok response, next to a
\* stale-while-revalidate hit whose fetch rejected
C17_Witness ==
    \E h, g \in HandlerIds :
        /\ FailedRefresh(h) /\ handlers[h].task = "fetchAndCache"
        /\ handlers[h].net = "resolved"
        /\ FailedRefresh(g) /\ handlers[g].task = "swr"
        /\ handlers[g].net = "rejected"

(***************************************************************************)
(* C18: in every variant, after any sequence of install, activate, fetch   *)
(* and message events, every entry of every store is a network response    *)
(* with an ok status, written by a v6 fetch handler only with status 200;  *)
(* a non-ok response and a synthetic placeholder are never stored.         *)
(***************************************************************************)
C18_OnlyOkStored ==
    \A i \in DOMAIN stores, u \in Urls :
        LET e == stores[i].entries[u]
        IN  e # NoEntry =>
              /\ IsNet(e) /\ Ok(e.status)
              /\ e.url = u
              /\ (stores[i].name = CACHE_NAME("v6") /\ e.by # 0)
                    => e.status = 200

\* a v6 handler returned an ok response of status 204 without storing it,
\* and a handler has stored its response
C18_Witness ==
    \E h, g \in HandlerIds :
        /\ handlers[h].ver = "v6" /\ Finished(h)
        /\ IsNet(handlers[h].out) /\ handlers[h].out.status = 204
        /\ ~handlers[h].stored
        /\ handlers[g].stored
        /\ PrecacheEntry(g) = handlers[g].resp

(***************************************************************************)
(* C19 as stated: in every variant, handling a fetch for request R,        *)
(* detached refresh included, never reads an entry under a key other than  *)
(* R, and leaves every entry under another key unchanged.                  *)
(***************************************************************************)
ReadsOwnKey ==
    \A h \in HandlerIds : handlers[h].reads \subseteq {handlers[h].req.url}

\* a step of handler h changes no entry under a key that is not its own
WritesOwnKey ==
    \A h \in HandlerIds :
        handlers'[h] # handlers[h] =>
            \A n \in AllStoreNames, u \in Urls \ {handlers'[h].req.url} :
                EntryOf(stores, n, u)' = EntryOf(stores, n, u)

\* C19 as stated: reads and writes touch the key of R only
C19_OneKey == []ReadsOwnKey /\ [][WritesOwnKey]_vars

(***************************************************************************)
(* C19 amended: a handler writes only the entry keyed by R; it reads the   *)
(* entry keyed by R and, only after its fetch rejected and no entry for R  *)
(* was found, the entry keyed by /index.html.                              *)
(***************************************************************************)
ReadsOwnKeyOrShell ==
    \A h \in HandlerIds :
        /\ handlers[h].reads \subseteq {handlers[h].req.url, IndexUrl}
        /\ (IndexUrl \in handlers[h].reads /\ handlers[h].req.url # IndexUrl)
              => /\ handlers[h].net = "rejected"
                 /\ Miss(h)

\* C19 amended: writes touch the key of R, reads the key of R or the shell
C19_OwnKeyOrShell == []ReadsOwnKeyOrShell /\ [][WritesOwnKey]_vars

\* one handler has looked up its own key and then the shell, another has
\* written its response under its own key
C19_Witness ==
    \E h, g \in HandlerIds :
        /\ handlers[h].req.url # IndexUrl
        /\ handlers[h].reads = {handlers[h].req.url, IndexUrl}
        /\ handlers[g].stored
        /\ PrecacheEntry(g) = handlers[g].resp

============================================================================
